---- MODULE Spec2Model ----
(***************************************************************************)
(* Obsidian-to-Speech: the text normalizer clean_markdown_text and the two *)
(* CLI commands convert and convert_directory of obsidian_to_speech.py.    *)
(*                                                                         *)
(* A text is a sequence of one-character strings.  Every re.sub / re.match *)
(* of the source is a pattern (a sequence of items) handed to a small      *)
(* backtracking matcher with Python's leftmost, greedy semantics.          *)
(***************************************************************************)
EXTENDS Integers, Sequences, FiniteSets, TLC

VARIABLES
    text,        \* the argument of a call of clean_markdown_text
    result,      \* the text it returned
    pc,          \* "start" before the call, "done" after it
    files,       \* the input tree: relative path -> file or directory
    wfail,       \* the output paths whose open('w') or write fails
    initial_out, \* the files under the output directory before the command
    io,          \* the command's effects so far, a record of
                 \*   outfs: the files under the output directory, path -> content
                 \*   readlog: the input files opened for reading, in order
                 \*   writelog: the output files opened for writing, in order
                 \*   echoed: the confirmation lines printed, <<input, output>>
                 \*   ok: FALSE once an exception has left the command
    outdirs,     \* the directories made by mkdir(parents=True, exist_ok=True)
    remaining,   \* the matches of glob('**/*.md') not yet yielded
    status,      \* "idle", "running", "done" or "failed" (an exception left)
    cmd          \* the command invoked and its arguments

vars ==
    <<text, result, pc, files, wfail, initial_out, io, outdirs, remaining,
      status, cmd>>

(***************************************************************************)
(* Character classes of the regular expressions.                           *)
(***************************************************************************)
Upper == {"A","B","C","D","E","F","G","H","I","J","K","L","M",
          "N","O","P","Q","R","S","T","U","V","W","X","Y","Z"}

Lower == {"a","b","c","d","e","f","g","h","i","j","k","l","m",
          "n","o","p","q","r","s","t","u","v","w","x","y","z"}

Digit == {"0","1","2","3","4","5","6","7","8","9"}

Letter == Upper \cup Lower

\* [a-zA-Z0-9-]
TagChar == Letter \cup Digit \cup {"-"}

\* \s, and what str.strip() removes
WS == {" ", "\n", "\t", "\r", "\f"}

(***************************************************************************)
(* Pattern items.  A class item matches between min and max characters     *)
(* (max = Inf: unbounded), greedily; neg = TRUE is a negated class [^...]. *)
(***************************************************************************)
Inf == 1000000

Cls(S, neg, lo, hi) == [k |-> "cls", set |-> S, neg |-> neg, min |-> lo, max |-> hi]

Lit(c) == Cls({c}, FALSE, 1, 1)

One(S) == Cls(S, FALSE, 1, 1)

Plus(S) == Cls(S, FALSE, 1, Inf)

Star(S) == Cls(S, FALSE, 0, Inf)

NotPlus(S) == Cls(S, TRUE, 1, Inf)

\* ^ and $ under re.MULTILINE
Bol == [k |-> "bol"]

Eol == [k |-> "eol"]

\* ^ and $ without re.MULTILINE
Bos == [k |-> "bos"]

Eos == [k |-> "eos"]

\* a literal word as a sequence of items
Word(w) == [i \in 1..Len(w) |-> Lit(w[i])]

\* replacement parts: literal text, or the text matched by items from..to
Txt(s) == [lit |-> TRUE, s |-> s]

Grp(a, b) == [lit |-> FALSE, from |-> a, to |-> b]

InCls(it, c) == (c \in it.set) # it.neg

\* number of consecutive characters of s from position i on that item it accepts
RECURSIVE Run(_, _, _, _)
Run(it, s, i, n) ==
    IF n < it.max /\ i + n <= Len(s) /\ InCls(it, s[i + n])
    THEN Run(it, s, i, n + 1)
    ELSE n

(***************************************************************************)
(* MatchFrom(items, k, s, i): the match of items k.. at position i that    *)
(* Python's backtracking finds first, as the sequence of the positions at  *)
(* which each item starts followed by the position after the match; << >>  *)
(* when there is none.                                                     *)
(***************************************************************************)
RECURSIVE MatchFrom(_, _, _, _)
RECURSIVE TryLen(_, _, _, _, _)
MatchFrom(items, k, s, i) ==
    IF k > Len(items) THEN <<i>>
    ELSE LET it == items[k] IN
         IF it.k = "cls"
         THEN LET n == Run(it, s, i, 0) IN
              IF n < it.min THEN << >> ELSE TryLen(items, k, s, i, n)
         ELSE LET ok == CASE it.k = "bol" -> i = 1 \/ s[i - 1] = "\n"
                          [] it.k = "eol" -> i = Len(s) + 1 \/ s[i] = "\n"
                          [] it.k = "bos" -> i = 1
                          [] it.k = "eos" -> i = Len(s) + 1
                                             \/ (i = Len(s) /\ s[i] = "\n")
                  rest == MatchFrom(items, k + 1, s, i)
              IN IF ok /\ rest # << >> THEN <<i>> \o rest ELSE << >>

TryLen(items, k, s, i, n) ==
    LET rest == MatchFrom(items, k + 1, s, i + n) IN
    IF rest # << >> THEN <<i>> \o rest
    ELSE IF n > items[k].min THEN TryLen(items, k, s, i, n - 1)
    ELSE << >>

\* re.match(pattern, s): a match anchored at the start of s
ReMatch(items, s) == MatchFrom(items, 1, s, 1)

RECURSIVE Expand(_, _, _, _)
Expand(repl, j, s, m) ==
    IF j > Len(repl) THEN << >>
    ELSE (IF repl[j].lit THEN repl[j].s
          ELSE SubSeq(s, m[repl[j].from], m[repl[j].to + 1] - 1))
         \o Expand(repl, j + 1, s, m)

(***************************************************************************)
(* re.sub(pattern, repl, s) for a pattern that matches no empty string:    *)
(* the leftmost non-overlapping matches, each replaced.                    *)
(***************************************************************************)
RECURSIVE SubFrom(_, _, _, _)
SubFrom(items, repl, s, i) ==
    IF i > Len(s) THEN << >>
    ELSE LET m == MatchFrom(items, 1, s, i) IN
         IF m = << >> THEN <<s[i]>> \o SubFrom(items, repl, s, i + 1)
         ELSE Expand(repl, 1, s, m) \o SubFrom(items, repl, s, m[Len(m)])

ReSub(items, repl, s) == SubFrom(items, repl, s, 1)

(***************************************************************************)
(* Stage 1 of clean_markdown_text: the substitutions over the whole text,  *)
(* in source order.                                                        *)
(***************************************************************************)
\* r'#\s+' -> ''
StripHeadingMarkers(t) == ReSub(<<Lit("#"), Plus(WS)>>, << >>, t)

\* r'\*\*([^*]+)\*\*' -> r'\1'
StripBold(t) ==
    ReSub(<<Lit("*"), Lit("*"), NotPlus({"*"}), Lit("*"), Lit("*")>>, <<Grp(3, 3)>>, t)

\* r'\*([^*]+)\*' -> r'\1'
StripItalics(t) == ReSub(<<Lit("*"), NotPlus({"*"}), Lit("*")>>, <<Grp(2, 2)>>, t)

\* the backquote character (a TLA+ string cannot hold one)
Backquote == "BQ"

\* r'BQ([^BQ]+)BQ' -> r'\1', BQ the backquote
StripCode(t) ==
    ReSub(<<Lit(Backquote), NotPlus({Backquote}), Lit(Backquote)>>, <<Grp(2, 2)>>, t)

\* r'\[([^\]]+)\]\([^\)]+\)' -> r'\1'
StripLinks(t) ==
    ReSub(<<Lit("["), NotPlus({"]"}), Lit("]"), Lit("("), NotPlus({")"}), Lit(")")>>,
          <<Grp(2, 2)>>, t)

\* r'\[\[([^\]]+)\]\]' -> r'\1'
StripWikiLinks(t) ==
    ReSub(<<Lit("["), Lit("["), NotPlus({"]"}), Lit("]"), Lit("]")>>, <<Grp(3, 3)>>, t)

\* r'\!\[\[([^\]]+)\]\]' -> ''
StripImageLinks(t) ==
    ReSub(<<Lit("!"), Lit("["), Lit("["), NotPlus({"]"}), Lit("]"), Lit("]")>>, << >>, t)

\* r'\^[a-zA-Z0-9-]+' -> ''
StripBlockRefs(t) == ReSub(<<Lit("^"), Plus(TagChar)>>, << >>, t)

\* r'#([a-zA-Z0-9-]+)' -> ''
StripTags(t) == ReSub(<<Lit("#"), Plus(TagChar)>>, << >>, t)

\* r'^\s*--+\s*$' -> '', MULTILINE
StripRules(t) ==
    ReSub(<<Bol, Star(WS), Lit("-"), Plus({"-"}), Star(WS), Eol>>, << >>, t)

\* r'^\s*\d+\.\d+\s*$' -> '', MULTILINE
StripSectionNumberLines(t) ==
    ReSub(<<Bol, Star(WS), Plus(Digit), Lit("."), Plus(Digit), Star(WS), Eol>>, << >>, t)

\* r'^\s*\d+\.\s*$' -> '', MULTILINE
StripNumberLines(t) ==
    ReSub(<<Bol, Star(WS), Plus(Digit), Lit("."), Star(WS), Eol>>, << >>, t)

\* r'^\s*\.\d+\s*$' -> '', MULTILINE
StripDecimalLines(t) ==
    ReSub(<<Bol, Star(WS), Lit("."), Plus(Digit), Star(WS), Eol>>, << >>, t)

\* r'^\s*-\s*' -> '', MULTILINE
StripBullets(t) == ReSub(<<Bol, Star(WS), Lit("-"), Star(WS)>>, << >>, t)

\* r'^\s*#\.\d+\.\d+\s+' -> '', MULTILINE
StripHashSection2(t) ==
    ReSub(<<Bol, Star(WS), Lit("#"), Lit("."), Plus(Digit), Lit("."), Plus(Digit),
            Plus(WS)>>, << >>, t)

\* r'^\s*#\.\d+\s+' -> '', MULTILINE
StripHashSection1(t) ==
    ReSub(<<Bol, Star(WS), Lit("#"), Lit("."), Plus(Digit), Plus(WS)>>, << >>, t)

ChapterWord == <<"C", "h", "a", "p", "t", "e", "r">>

\* r'^\s*Chapter\s+(\d+)\s*[:.]\s*([^\n]+)' -> r'Chapter \1: \2', MULTILINE
NormalizeChapters(t) ==
    ReSub(<<Bol, Star(WS)>> \o Word(ChapterWord)
            \o <<Plus(WS), Plus(Digit), Star(WS), One({":", "."}), Star(WS),
                 NotPlus({"\n"})>>,
          <<Txt(ChapterWord \o <<" ">>), Grp(11, 11), Txt(<<":", " ">>), Grp(15, 15)>>, t)

Stage1(t) ==
    NormalizeChapters(StripHashSection1(StripHashSection2(StripBullets(
    StripDecimalLines(StripNumberLines(StripSectionNumberLines(StripRules(
    StripTags(StripBlockRefs(StripImageLinks(StripWikiLinks(StripLinks(
    StripCode(StripItalics(StripBold(StripHeadingMarkers(t)))))))))))))))))

(***************************************************************************)
(* Strings: str.split, str.strip, str.join.                                *)
(***************************************************************************)
\* t.split('\n'), as a sequence of lines
RECURSIVE SplitFrom(_, _, _)
SplitFrom(t, i, cur) ==
    IF i > Len(t) THEN <<cur>>
    ELSE IF t[i] = "\n" THEN <<cur>> \o SplitFrom(t, i + 1, << >>)
    ELSE SplitFrom(t, i + 1, Append(cur, t[i]))

SplitLines(t) == SplitFrom(t, 1, << >>)

RECURSIVE LStrip(_)
LStrip(s) == IF s # << >> /\ Head(s) \in WS THEN LStrip(Tail(s)) ELSE s

RECURSIVE RStrip(_)
RStrip(s) ==
    IF s # << >> /\ s[Len(s)] \in WS THEN RStrip(SubSeq(s, 1, Len(s) - 1)) ELSE s

\* s.strip()
Strip(s) == RStrip(LStrip(s))

\* sep.join(parts)
RECURSIVE Join(_, _)
Join(sep, parts) ==
    IF parts = << >> THEN << >>
    ELSE IF Len(parts) = 1 THEN parts[1]
    ELSE parts[1] \o sep \o Join(sep, Tail(parts))

(***************************************************************************)
(* Stage 2 of clean_markdown_text: the loop over the lines.                *)
(***************************************************************************)
\* r'(?<=[a-zA-Z])(?=[A-Z][a-z])' -> ' ': a space at every position between a
\* letter and an uppercase letter that a lowercase letter follows
RECURSIVE CamelFrom(_, _)
CamelFrom(s, i) ==
    IF i > Len(s) THEN << >>
    ELSE (IF i > 1 /\ i < Len(s) /\ s[i - 1] \in Letter /\ s[i] \in Upper
             /\ s[i + 1] \in Lower
          THEN <<" ", s[i]>> ELSE <<s[i]>>)
         \o CamelFrom(s, i + 1)

SplitCamelCase(s) == CamelFrom(s, 1)

\* r'([a-zA-Z])to([A-Z])' -> r'\1 to \2'
FixStuckTo(s) ==
    ReSub(<<One(Letter), Lit("t"), Lit("o"), One(Upper)>>,
          <<Grp(1, 1), Txt(<<" ", "t", "o", " ">>), Grp(4, 4)>>, s)

\* r'([a-zA-Z])([A-Z])' -> r'\1 \2'
SpaceBeforeUpper(s) ==
    ReSub(<<One(Letter), One(Upper)>>, <<Grp(1, 1), Txt(<<" ">>), Grp(2, 2)>>, s)

\* r'([A-Z])\s+([A-Z])\s+([A-Z])' -> r'\1\2\3'
MergeAcronym3(s) ==
    ReSub(<<One(Upper), Plus(WS), One(Upper), Plus(WS), One(Upper)>>,
          <<Grp(1, 1), Grp(3, 3), Grp(5, 5)>>, s)

\* r'([A-Z])\s+([A-Z])' -> r'\1\2'
MergeAcronym2(s) ==
    ReSub(<<One(Upper), Plus(WS), One(Upper)>>, <<Grp(1, 1), Grp(3, 3)>>, s)

\* lines 49-53: the word-spacing repairs
FixWordSpacing(s) ==
    MergeAcronym2(MergeAcronym3(SpaceBeforeUpper(FixStuckTo(SplitCamelCase(s)))))

\* r'^\s*\d+\.\d+\s+' -> ''
StripSectionPrefix(s) ==
    ReSub(<<Bos, Star(WS), Plus(Digit), Lit("."), Plus(Digit), Plus(WS)>>, << >>, s)

\* r'^\s*\d+\.\s+' -> ''
StripNumberPrefix(s) ==
    ReSub(<<Bos, Star(WS), Plus(Digit), Lit("."), Plus(WS)>>, << >>, s)

\* r'^\s*\.\d+\s+' -> ''
StripDecimalPrefix(s) ==
    ReSub(<<Bos, Star(WS), Lit("."), Plus(Digit), Plus(WS)>>, << >>, s)

\* r'^\s*-\s+' -> ''
StripBulletPrefix(s) ==
    ReSub(<<Bos, Star(WS), Lit("-"), Plus(WS)>>, << >>, s)

\* lines 41-59: what the loop makes of one non-blank line
CleanLine(s) ==
    StripBulletPrefix(StripDecimalPrefix(StripNumberPrefix(StripSectionPrefix(
    FixWordSpacing(s)))))

\* re.match(r'^Chapter\s+(\d+):\s*(.+)$', line): the match, << >> if none
chapter_match(line) ==
    ReMatch(<<Bos>> \o Word(ChapterWord)
              \o <<Plus(WS), Plus(Digit), Lit(":"), Star(WS), NotPlus({"\n"}), Eos>>,
            line)

\* f"Chapter {chapter_match.group(1)}: {chapter_match.group(2)}"
ChapterLine(line, m) ==
    Expand(<<Txt(ChapterWord \o <<" ">>), Grp(10, 10), Txt(<<":", " ">>), Grp(13, 13)>>,
           1, line, m)

\* the position after [A-Z][a-z]+ at position i of s, 0 if it does not match there
TitleWordEnd(s, i) ==
    IF i <= Len(s) /\ s[i] \in Upper
    THEN LET n == Run(Plus(Lower), s, i + 1, 0) IN IF n >= 1 THEN i + 1 + n ELSE 0
    ELSE 0

\* (?:\s+[A-Z][a-z]+)+\s*$ from position i on, n groups matched so far
RECURSIVE MoreTitleWords(_, _, _)
MoreTitleWords(s, i, n) ==
    LET w == Run(Plus(WS), s, i, 0)
        e == TitleWordEnd(s, i + w)
    IN IF w >= 1 /\ e # 0 THEN MoreTitleWords(s, e, n + 1)
       ELSE n >= 1 /\ i + w = Len(s) + 1

\* re.match(r'^[A-Z][a-z]+(?:\s+[A-Z][a-z]+)+\s*$', line)
IsSectionHeader(line) ==
    LET e == TitleWordEnd(line, 1) IN e # 0 /\ MoreTitleWords(line, e, 0)

KeyMilestones ==
    <<"K", "e", "y", " ", "M", "i", "l", "e", "s", "t", "o", "n", "e", "s", ":">>

\* if current_paragraph: processed_lines.append(' '.join(current_paragraph))
Flush(st) ==
    IF st.current_paragraph # << >>
    THEN [processed_lines |-> Append(st.processed_lines,
                                     Join(<<" ">>, st.current_paragraph)),
          current_paragraph |-> << >>]
    ELSE st

\* lines 67-75: a chapter title
EmitChapter(st, line) ==
    LET f == Flush(st)
        p == IF f.processed_lines # << >> THEN Append(f.processed_lines, << >>)
             ELSE f.processed_lines
    IN [f EXCEPT !.processed_lines =
            p \o <<ChapterLine(line, chapter_match(line)), << >>>>]

\* lines 78-86 and 89-97: a section header, and the line 'Key Milestones:'
EmitHeader(st, line) ==
    LET f == Flush(st)
        p == IF f.processed_lines # << >>
                /\ f.processed_lines[Len(f.processed_lines)] # << >>
             THEN Append(f.processed_lines, << >>)
             ELSE f.processed_lines
    IN [f EXCEPT !.processed_lines = p \o <<line, << >>>>]

\* one iteration of the loop of lines 39-100
ProcessLine(st, raw) ==
    LET stripped == Strip(raw) IN
    IF stripped = << >> THEN Flush(st)
    ELSE LET line == CleanLine(stripped) IN
         IF line = << >> THEN st
         ELSE IF chapter_match(line) # << >> THEN EmitChapter(st, line)
         ELSE IF IsSectionHeader(line) THEN EmitHeader(st, line)
         ELSE IF line = KeyMilestones THEN EmitHeader(st, line)
         ELSE [st EXCEPT !.current_paragraph = Append(@, line)]

RECURSIVE ProcessLines(_, _, _)
ProcessLines(st, lines, i) ==
    IF i > Len(lines) THEN st
    ELSE ProcessLines(ProcessLine(st, lines[i]), lines, i + 1)

\* lines 35-104: processed_lines after the loop and the last flush
Reflow(t) ==
    Flush(ProcessLines([processed_lines |-> << >>, current_paragraph |-> << >>],
                       SplitLines(t), 1)).processed_lines

(***************************************************************************)
(* Stage 3 of clean_markdown_text: assembly and final cleanup.             *)
(***************************************************************************)
\* (line for line in processed_lines if line is not None and line.strip())
NonBlank(ls) == SelectSeq(ls, LAMBDA l : Strip(l) # << >>)

\* r'\n{3,}' -> '\n\n'
CollapseNewlines(t) == ReSub(<<Cls({"\n"}, FALSE, 3, Inf)>>, <<Txt(<<"\n", "\n">>)>>, t)

\* mutant: line 111 left out
CollapseSpaces_Dropped(t) == t

\* r' +' -> ' '
CollapseSpaces(t) == ReSub(<<Plus({" "})>>, <<Txt(<<" ">>)>>, t)

\* mutant: the blocks joined with one newline instead of two
Assemble_SingleNewline(ls) ==
    Strip(CollapseSpaces(CollapseNewlines(Join(<<"\n">>, NonBlank(ls)))))

\* lines 107-112
Assemble(ls) ==
    Strip(CollapseSpaces(CollapseNewlines(Join(<<"\n", "\n">>, NonBlank(ls)))))

clean_markdown_text(t) == Assemble(Reflow(Stage1(t)))

(***************************************************************************)
(* A call of clean_markdown_text: text is the argument, result the value   *)
(* returned.  The commands' state is untouched by it.                      *)
(***************************************************************************)
\* the effects of a command that has done nothing yet, run on output files fs
Untouched(fs) ==
    [outfs |-> fs, readlog |-> << >>, writelog |-> << >>, echoed |-> << >>,
     ok |-> TRUE]

\* no command is running
CliIdle ==
    /\ files = << >> /\ wfail = [open |-> {}, write |-> {}]
    /\ initial_out = << >> /\ io = Untouched(<< >>)
    /\ outdirs = {} /\ remaining = {}
    /\ status = "idle" /\ cmd = [name |-> "none"]

CliVars ==
    <<files, wfail, initial_out, io, outdirs, remaining, status, cmd>>

CallClean ==
    /\ pc = "start"
    /\ result' = clean_markdown_text(text)
    /\ pc' = "done"
    /\ UNCHANGED <<text, CliVars>>

NextClean == CallClean

\* every text of at most n characters over the alphabet A
Strings(A, n) == UNION {[1..k -> A] : k \in 0..n}

InitClean(inputs) == text \in inputs /\ result = << >> /\ pc = "start" /\ CliIdle

MaxLen == 6

ProseAlphabet == {"a", "A", " ", "\n", "-", "#"}

InitProse == InitClean(Strings(ProseAlphabet, MaxLen))

SpecProse == InitProse /\ [][NextClean]_vars

(***************************************************************************)
(* Properties of the text returned.                                        *)
(***************************************************************************)
\* sub occurs in s as a run of consecutive characters
Contains(s, sub) ==
    \E i \in 1..(Len(s) - Len(sub) + 1) : SubSeq(s, i, i + Len(sub) - 1) = sub

\* s holds n or more consecutive characters c
HasRun(s, c, n) ==
    \E i \in 1..(Len(s) - n + 1) : \A j \in i..(i + n - 1) : s[j] = c

OnlyChars(s, A) == \A i \in 1..Len(s) : s[i] \in A

\* C1: for every input, the text returned holds no run of three or more
\* newline characters and no run of two or more space characters.
C1_NoNewlineOrSpaceRuns ==
    pc = "done" => ~HasRun(result, "\n", 3) /\ ~HasRun(result, " ", 2)

\* C1 witness: an input with three newlines in a row between two paragraphs,
\* returned as two blocks with a blank line between them.
C1_Witness ==
    /\ pc = "done"
    /\ HasRun(text, "\n", 3)
    /\ Contains(result, <<"a", "\n", "\n", "a">>)

\* C2 as stated: for every input x, cleaning the returned text again returns it
\* unchanged.
C2_IdempotentForAll == pc = "done" => clean_markdown_text(result) = result

\* C2 amended: for every input made only of lowercase letters, spaces and
\* newlines, cleaning the returned text again returns it unchanged.
C2_IdempotentOnLowercase ==
    pc = "done" /\ OnlyChars(text, Lower \cup {" ", "\n"})
        => clean_markdown_text(result) = result

\* C2 witness: a lowercase input that the first run changes (paragraphs are
\* separated, blank lines collapsed) and the second run leaves alone.
C2_Witness ==
    /\ pc = "done"
    /\ OnlyChars(text, Lower \cup {" ", "\n"})
    /\ result # text
    /\ Contains(result, <<"\n", "\n">>)
    /\ clean_markdown_text(result) = result

(***************************************************************************)
(* Inputs built from words: heading lines, links, chapter lines, paragraphs *)
(* and acronyms.                                                           *)
(***************************************************************************)
\* n copies of the character c
Rep(c, n) == [i \in 1..n |-> c]

\* the non-empty lines of the text returned: its blocks
Blocks(t) == SelectSeq(SplitLines(t), LAMBDA l : l # << >>)

MaxHashes == 3

MaxGap == 2

HeadingWords ==
    {<<"H", "e", "l", "l", "o">>,
    <<"W", "o", "r", "l", "d">>,
    <<"n", "o", "t", "e", "s">>,
    <<"m", "y">>}

\* titles of one or two plain words
HeadingTitles ==
    HeadingWords \cup {a \o <<" ">> \o b : a \in HeadingWords, b \in HeadingWords}

\* a heading line: n '#' characters, g spaces, the title
Heading(n, g, title) == Rep("#", n) \o Rep(" ", g) \o title

HeadingInputs ==
    {Heading(n, g, title) : n \in 1..MaxHashes, g \in 1..MaxGap, title \in HeadingTitles}

InitHeading == InitClean(HeadingInputs)

SpecHeading == InitHeading /\ [][NextClean]_vars

HelloWorld == <<"H", "e", "l", "l", "o", " ", "W", "o", "r", "l", "d">>

\* C3: a heading line of one or more '#' characters, whitespace and a title
\* of plain words comes out with the complete title and no '#' character, and
\* "# Hello World" comes out as exactly "Hello World".
C3_HeadingTitleKept ==
    pc = "done" =>
        /\ \A n \in 1..MaxHashes, g \in 1..MaxGap, title \in HeadingTitles :
               text = Heading(n, g, title)
                   => Contains(result, title) /\ ~Contains(result, <<"#">>)
        /\ text = Heading(1, 1, HelloWorld) => result = HelloWorld

LinkNames ==
    {<<"i", "m", "a", "g", "e", ".", "p", "n", "g">>,
    <<"a", ".", "j", "p", "g">>,
    <<"M", "y", " ", "N", "o", "t", "e">>,
    <<"p", "i", "c">>}

LinkPrefixes ==
    {<<>>,
    <<"s", "e", "e", " ">>,
    <<"x", "\n">>}

LinkSuffixes ==
    {<<>>,
    <<" ", "h", "e", "r", "e">>,
    <<"\n", "\n", "y">>}

\* ![[name]]
ImageLink(name) == <<"!", "[", "[">> \o name \o <<"]", "]">>

\* [[name]]
WikiLink(name) == <<"[", "[">> \o name \o <<"]", "]">>

LinkInputs ==
    {pre \o link \o suf : pre \in LinkPrefixes, suf \in LinkSuffixes,
        link \in {ImageLink(name) : name \in LinkNames}
                 \cup {WikiLink(name) : name \in LinkNames}}

InitLinks == InitClean(LinkInputs)

SpecLinks == InitLinks /\ [][NextClean]_vars

ImagePng == <<"i", "m", "a", "g", "e", ".", "p", "n", "g">>

MyNote == <<"M", "y", " ", "N", "o", "t", "e">>

\* C4: an embedded image link ![[name]] is removed entirely: neither its '!'
\* nor its name is in the text returned, "![[image.png]]" alone returns the
\* empty text, and the wiki-link "[[My Note]]" returns "My Note".
C4_ImageLinkRemoved ==
    pc = "done" =>
        /\ \A pre \in LinkPrefixes, suf \in LinkSuffixes, name \in LinkNames :
               text = pre \o ImageLink(name) \o suf
                   => ~Contains(result, <<"!">>) /\ ~Contains(result, name)
        /\ text = ImageLink(ImagePng) => result = << >>
        /\ text = WikiLink(MyNote) => result = MyNote

ChapterNumbers ==
    {<<"1">>,
     <<"2", "3">>}

\* titles of plain words
ChapterTitles ==
    {<<"T", "h", "e", " ", "B", "e", "g", "i", "n", "n", "i", "n", "g">>,
     <<"T", "h", "e", " ", "E", "n", "d">>,
     <<"A", " ", "T", "a", "l", "e">>,
     <<"A", "n", " ", "E", "n", "d">>,
     <<"T", "a", "l", "e", " ", "o", "f", " ", "W", "o", "e">>}

\* the paragraph text before the chapter line, with the newlines ending it
TextBefore == <<"h", "i">>

TextAfter == <<"y", "o">>

MaxNewlines == 2

\* "Chapter N: Title"
ChapterHeading(n, title) == ChapterWord \o <<" ">> \o n \o <<":", " ">> \o title

\* before (b > 0: the text and b newlines), the chapter line, after (a > 0: a
\* newlines and the text)
ChapterInput(b, n, title, a) ==
    (IF b > 0 THEN TextBefore \o Rep("\n", b) ELSE << >>)
    \o ChapterHeading(n, title)
    \o (IF a > 0 THEN Rep("\n", a) \o TextAfter ELSE << >>)

ChapterInputs ==
    {ChapterInput(b, n, title, a) :
        b \in 0..MaxNewlines, a \in 0..MaxNewlines,
        n \in ChapterNumbers, title \in ChapterTitles}

InitChapter == InitClean(ChapterInputs)

SpecChapter == InitChapter /\ [][NextClean]_vars

\* C5: a line "Chapter N: Title" with a title of plain words comes out as a
\* block that is exactly "Chapter N: Title"; the paragraph text before it is
\* the block before, the text after it the block after.
C5_ChapterBlockVerbatim ==
    pc = "done" =>
        \A b \in 0..MaxNewlines, a \in 0..MaxNewlines,
           n \in ChapterNumbers, title \in ChapterTitles :
            text = ChapterInput(b, n, title, a)
                => Blocks(result) =
                       (IF b > 0 THEN <<TextBefore>> ELSE << >>)
                       \o <<ChapterHeading(n, title)>>
                       \o (IF a > 0 THEN <<TextAfter>> ELSE << >>)

ParagraphLines ==
    {<<"o", "n", "e">>,
     <<"t", "w", "o", " ", "w", "o", "r", "d", "s">>,
     <<"x">>,
     <<"i", "t", " ", "i", "s">>}

Bullets == {<< >>, <<"-", " ">>}

\* two content lines k newlines apart (k = 1: consecutive lines; k > 1: blank
\* lines between them), the later one after a bullet marker or none
TwoLines(l1, k, bullet, l2) == l1 \o Rep("\n", k) \o bullet \o l2

ParagraphInputs ==
    {TwoLines(l1, k, bullet, l2) :
        l1 \in ParagraphLines, l2 \in ParagraphLines,
        k \in 1..(MaxNewlines + 1), bullet \in Bullets}

InitParagraph == InitClean(ParagraphInputs)

SpecParagraph == InitParagraph /\ [][NextClean]_vars

\* C9: two content lines with at least one blank line between them come out
\* as two blocks, in input order, also when the later line starts with the
\* bullet marker "- " (removed from that line); two consecutive ordinary
\* lines come out as one block, joined with one space.
C9_BlankLineEndsParagraph ==
    pc = "done" =>
        \A l1 \in ParagraphLines, l2 \in ParagraphLines,
           k \in 1..(MaxNewlines + 1), bullet \in Bullets :
            text = TwoLines(l1, k, bullet, l2)
                => /\ k > 1 => Blocks(result) = <<l1, l2>>
                   /\ k = 1 /\ bullet = << >>
                          => Blocks(result) = <<l1 \o <<" ">> \o l2>>

Acronyms ==
    {<<"N", "A", "S", "A">>,
     <<"U", "S", "A">>}

ProseWords ==
    {<<"L", "a", "u", "n", "c", "h">>,
     <<"t", "h", "e">>,
     <<"T", "a", "l", "e">>,
     <<"d", "a", "t", "a">>,
     <<"M", "o", "o", "n">>}

ProseTokens == Acronyms \cup ProseWords \cup {<<"A">>}

\* two tokens on one line, a space between them
TwoTokens(w1, w2) == w1 \o <<" ">> \o w2

AcronymInputs ==
    Acronyms \cup {TwoTokens(w1, w2) : w1 \in ProseTokens, w2 \in ProseTokens}

InitAcronym == InitClean(AcronymInputs)

SpecAcronym == InitAcronym /\ [][NextClean]_vars

\* C10: the acronym re-merging never deletes the space between two tokens
\* when one of them is a multi-letter word: the last character of the first,
\* the space and the first character of the second are still together in the
\* text returned; and an all-uppercase acronym alone is returned unchanged.
C10_SpaceBetweenWordsKept ==
    pc = "done" =>
        /\ \A w1 \in ProseTokens, w2 \in ProseTokens :
               text = TwoTokens(w1, w2) /\ (Len(w1) > 1 \/ Len(w2) > 1)
                   => Contains(result, <<w1[Len(w1)], " ", w2[1]>>)
        /\ text \in Acronyms => result = text

(***************************************************************************)
(* The commands convert and convert_directory.  A path is a sequence of    *)
(* names, a name the sequence of its dot-separated parts: sub/b.md is      *)
(* <<<<"sub">>, <<"b", "md">>>> and the name .md is <<"", "md">>.          *)
(***************************************************************************)
Name(p) == p[Len(p)]

\* the directories above path p, the root << >> among them
Ancestors(p) == {SubSeq(p, 1, k) : k \in 0..(Len(p) - 1)}

\* fnmatch of a name against '*.md'
GlobMatches(name) == Len(name) >= 2 /\ name[Len(name)] = "md"

\* input_path.glob('**/*.md'): the entries at any depth whose name matches
Glob(tree) == {p \in DOMAIN tree : GlobMatches(Name(p))}

\* PurePath.suffix is not empty: the last dot is neither the first nor the
\* last character of the name
HasSuffix(name) ==
    Len(name) >= 2 /\ name[Len(name)] # "" /\ ~(Len(name) = 2 /\ name[1] = "")

\* name.with_suffix('.txt')
WithSuffixTxt(name) ==
    IF HasSuffix(name) THEN SubSeq(name, 1, Len(name) - 1) \o <<"txt">>
    ELSE name \o <<"txt">>

\* mutant: the directories of the relative path are dropped
OutputFile_Flattened(rel_path) == <<WithSuffixTxt(Name(rel_path))>>

\* output_path / rel_path.with_suffix('.txt'), relative to output_path
OutputFile(rel_path) ==
    SubSeq(rel_path, 1, Len(rel_path) - 1) \o <<WithSuffixTxt(Name(rel_path))>>

\* open(path, 'r', encoding='utf-8') or f.read() raises: a directory, a file
\* that may not be read, or bytes that are not UTF-8
ReadFails(p) == files[p].kind = "dir" \/ ~files[p].readable

\* f with f[k] = v, k added to its domain when new
Put(f, k, v) == [x \in DOMAIN f \cup {k} |-> IF x = k THEN v ELSE f[x]]

\* mutant: the output file is opened, and so truncated, before the input is read
ConvertFile_WriteFirst(s, p, o) ==
    LET s1 == [s EXCEPT !.writelog = Append(@, o), !.outfs = Put(@, o, << >>),
                        !.readlog = Append(@, p)]
    IN IF ReadFails(p) \/ o \in wfail.write THEN [s1 EXCEPT !.ok = FALSE]
       ELSE [s1 EXCEPT !.outfs = Put(@, o, clean_markdown_text(files[p].content)),
                       !.echoed = Append(@, <<p, o>>)]

(***************************************************************************)
(* Lines 132-143 and 165-176: read the input file p, clean its text, write *)
(* the output file o, print the confirmation.  s holds the output files    *)
(* and the logs; ok = FALSE when an exception leaves.  open(o, 'w') either *)
(* fails and leaves o as it was, or truncates o; a failing write leaves it *)
(* truncated.                                                              *)
(***************************************************************************)
ConvertFile(s, p, o) ==
    LET s1 == [s EXCEPT !.readlog = Append(@, p)] IN
    IF ReadFails(p) THEN [s1 EXCEPT !.ok = FALSE]
    ELSE LET clean_text == clean_markdown_text(files[p].content) IN
         IF o \in wfail.open THEN [s1 EXCEPT !.ok = FALSE]
         ELSE IF o \in wfail.write
         THEN [s1 EXCEPT !.writelog = Append(@, o), !.outfs = Put(@, o, << >>),
                         !.ok = FALSE]
         ELSE [s1 EXCEPT !.writelog = Append(@, o), !.outfs = Put(@, o, clean_text),
                         !.echoed = Append(@, <<p, o>>)]

\* lines 124-143
convert(input_file, output_file) ==
    /\ status = "idle"
    /\ input_file \in DOMAIN files
    /\ io' = ConvertFile(io, input_file, output_file)
    /\ status' = IF io'.ok THEN "done" ELSE "failed"
    /\ outdirs' = outdirs \cup Ancestors(output_file)
    /\ cmd' = [name |-> "convert", input |-> input_file, output |-> output_file]
    /\ UNCHANGED <<text, result, pc, files, wfail, initial_out, remaining>>

\* lines 148-157: the output directory is made and the glob starts
convert_directory_begin ==
    /\ status = "idle"
    /\ status' = "running"
    /\ outdirs' = outdirs \cup {<< >>}
    /\ remaining' = Glob(files)
    /\ cmd' = [name |-> "convert_directory"]
    /\ UNCHANGED <<text, result, pc, files, wfail, initial_out, io>>

\* mutant: a failing file is skipped and the loop goes on
AfterFile_Isolated(ok) == "running"

\* no try/except around the loop body: an exception ends the command
AfterFile(ok) == IF ok THEN "running" ELSE "failed"

\* lines 157-176: one iteration, for the match the glob yields next (the
\* order of a directory scan is not specified)
convert_directory_file ==
    /\ status = "running"
    /\ cmd.name = "convert_directory"
    /\ \E markdown_file \in remaining :
        LET output_file == OutputFile(markdown_file)
        IN /\ remaining' = remaining \ {markdown_file}
           /\ outdirs' = outdirs \cup Ancestors(output_file)
           /\ io' = ConvertFile(io, markdown_file, output_file)
           /\ status' = AfterFile(io'.ok)
    /\ UNCHANGED <<text, result, pc, files, wfail, initial_out, cmd>>

\* the glob is exhausted: the command returns
convert_directory_end ==
    /\ status = "running"
    /\ cmd.name = "convert_directory"
    /\ remaining = {}
    /\ status' = "done"
    /\ UNCHANGED <<text, result, pc, files, wfail, initial_out, io, outdirs,
                   remaining, cmd>>

(***************************************************************************)
(* The trees the commands are run on.                                      *)
(***************************************************************************)
PathA == <<<<"a", "md">>>>

PathB == <<<<"sub">>, <<"b", "md">>>>

PathC == <<<<"sub">>, <<"c", "d", "md">>>>

\* a file named .md
PathHidden == <<<<"", "md">>>>

PathNotes == <<<<"sub">>, <<"notes", "txt">>>>

\* a directory named x.md
PathDir == <<<<"x", "md">>>>

AllPaths == {PathA, PathB, PathC, PathHidden, PathNotes, PathDir}

ContentOf(p) ==
    CASE p = PathA -> <<"#", " ", "H", "i">>
      [] p = PathB -> <<"a", "\n", "\n", "b">>
      [] p = PathC -> <<"x", " ", " ", "y">>
      [] p = PathHidden -> <<"*", "*", "h", "*", "*">>
      [] OTHER -> <<"n">>

OldContent == <<"o", "l", "d">>

Entry(p, readable) ==
    [kind |-> IF p = PathDir THEN "dir" ELSE "file", readable |-> readable,
     content |-> IF p = PathDir THEN << >> ELSE ContentOf(p)]

\* the trees: any of the paths present, a.md and sub/b.md readable or not
Trees ==
    {[p \in S |-> Entry(p, p \notin U)] :
        S \in SUBSET AllPaths, U \in SUBSET {PathA, PathB}}

\* the output files a command may be asked to write
OutputPaths == {OutputFile(p) : p \in AllPaths \ {PathNotes, PathDir}}

\* at most one output file fails, at open or at write
WriteFailures ==
    {[open |-> {}, write |-> {}]}
    \cup {[open |-> {o}, write |-> {}] : o \in {OutputFile(PathA), OutputFile(PathB)}}
    \cup {[open |-> {}, write |-> {o}] : o \in {OutputFile(PathA), OutputFile(PathB)}}

\* the output directory is empty, or holds an old copy of every output file
InitialOutputs == {<< >>, [o \in OutputPaths |-> OldContent]}

InitCli ==
    /\ text = << >> /\ result = << >> /\ pc = "none"
    /\ files \in {t \in Trees : \A p \in DOMAIN t : t[p].readable \/ p \in {PathA, PathB}}
    /\ wfail \in WriteFailures
    /\ initial_out \in InitialOutputs
    /\ io = Untouched(initial_out)
    /\ outdirs = {} /\ remaining = {}
    /\ status = "idle" /\ cmd = [name |-> "none"]

NextCli ==
    \/ \E input_file \in AllPaths, output_file \in {OutputFile(PathA), OutputFile(PathB)} :
           convert(input_file, output_file)
    \/ convert_directory_begin
    \/ convert_directory_file
    \/ convert_directory_end

SpecCli == InitCli /\ [][NextCli]_vars

(***************************************************************************)
(* Properties of the commands.                                             *)
(***************************************************************************)
Range(q) == {q[i] : i \in DOMAIN q}

\* the files of the input tree whose name ends in .md
MdFiles ==
    {p \in DOMAIN files :
        files[p].kind = "file" /\ Len(Name(p)) >= 2 /\ Name(p)[Len(Name(p))] = "md"}

\* path p with the .md that ends its name replaced by .txt
ExtensionReplaced(p) ==
    SubSeq(p, 1, Len(p) - 1) \o <<SubSeq(Name(p), 1, Len(Name(p)) - 1) \o <<"txt">>>>

\* as ExtensionReplaced, but .txt is appended to the name .md
ExpectedOutput(p) ==
    IF Name(p) = <<"", "md">>
    THEN SubSeq(p, 1, Len(p) - 1) \o <<<<"", "md", "txt">>>>
    ELSE ExtensionReplaced(p)

\* the number of confirmation lines printed for input file p
Confirmations(p) == Cardinality({i \in DOMAIN io.echoed : io.echoed[i][1] = p})

\* after a completed convert_directory: every .md file p has its output file
\* at out[p], holding its cleaned text, below directories that were made, and
\* one confirmation line; nothing else was written
DirectoryConverted(out) ==
    /\ \A p \in MdFiles :
        /\ out[p] \in DOMAIN io.outfs
        /\ io.outfs[out[p]] = clean_markdown_text(files[p].content)
        /\ Ancestors(out[p]) \subseteq outdirs
        /\ Confirmations(p) = 1
    /\ Range(io.writelog) = {out[p] : p \in MdFiles}
    /\ Len(io.echoed) = Cardinality(MdFiles)

Fails(p) == ReadFails(p) \/ OutputFile(p) \in wfail.open \cup wfail.write

\* C7: in convert-directory a failing file ends the batch: it is the last file
\* touched, no file still to come has been read, written or confirmed, and
\* the output files of the files before it hold what was written to them.
C7_FailureAbortsBatch ==
    cmd.name = "convert_directory" =>
        /\ \A i \in 1..Len(io.readlog) :
               Fails(io.readlog[i]) => i = Len(io.readlog) /\ status = "failed"
        /\ status = "failed" =>
               \A q \in remaining :
                   /\ q \notin Range(io.readlog)
                   /\ OutputFile(q) \notin Range(io.writelog)
                   /\ Confirmations(q) = 0
        /\ \A i \in 1..Len(io.readlog) :
               ~Fails(io.readlog[i]) =>
                   io.outfs[OutputFile(io.readlog[i])]
                       = clean_markdown_text(files[io.readlog[i]].content)

\* C7 witness: a batch that failed after converting a file, with matches left.
C7_Witness ==
    /\ cmd.name = "convert_directory" /\ status = "failed"
    /\ Len(io.readlog) >= 2 /\ Len(io.echoed) >= 1
    /\ remaining # {}

\* output file o is as it was before the command: absent, or with its old text
AsBefore(o) ==
    IF o \in DOMAIN initial_out
    THEN o \in DOMAIN io.outfs /\ io.outfs[o] = initial_out[o]
    ELSE o \notin DOMAIN io.outfs

\* C8: when reading an input file fails the command ends with an error, the
\* output file for that input is never opened for writing and is as it was
\* before, and no confirmation line is printed for it; in convert and in
\* convert-directory.
C8_ReadFailureLeavesOutput ==
    /\ cmd.name = "convert" /\ ReadFails(cmd.input) =>
           /\ status = "failed"
           /\ cmd.output \notin Range(io.writelog)
           /\ AsBefore(cmd.output)
           /\ io.echoed = << >>
    /\ cmd.name = "convert_directory" =>
           \A p \in Range(io.readlog) :
               ReadFails(p) =>
                   /\ status = "failed"
                   /\ OutputFile(p) \notin Range(io.writelog)
                   /\ AsBefore(OutputFile(p))
                   /\ Confirmations(p) = 0

\* C8 witness: a batch over old output files that converted a file and then
\* failed reading an unreadable file, whose old output file is still there.
C8_Witness ==
    /\ cmd.name = "convert_directory" /\ status = "failed"
    /\ initial_out # << >>
    /\ Len(io.echoed) >= 1
    /\ \E p \in Range(io.readlog) :
           /\ files[p].kind = "file" /\ ~files[p].readable
           /\ io.outfs[OutputFile(p)] = OldContent

====
